---- MODULE Spec2Model ----
(***************************************************************************)
(* Model of bitidx::BitSet<T, B>: a typed wrapper around the raw-index     *)
(* bit_set::BitSet engine.  The element type is the test enum Foo; the     *)
(* engine (super::BitSet over a bit_vec::BitVec) is the bs_* layer.        *)
(***************************************************************************)
EXTENDS Naturals, Sequences, FiniteSets

VARIABLES sets, taint, last, aborted

vars == <<sets, taint, last, aborted>>

\* Largest argument given to with_capacity / reserve_len.
MaxCap == 2
\* Longest sequence handed to extend / from_iter.
MaxXs == 2
\* Longest raw bit vector handed to from_bit_vec.
MaxRawLen == 4
\* Bits in a u8.
ByteBits == 8

\* The two BitSet<Foo> values the program holds.
Names == {"a", "b"}

Max(x, y) == IF x >= y THEN x ELSE y

(***************************************************************************)
(* The element type: enum Foo { A, B, C, D } and its two conversions.      *)
(***************************************************************************)
Foo == <<"A", "B", "C", "D">>

T == {Foo[i] : i \in 1..Len(Foo)}

\* into with the discriminant taken one too high.
into_mut(v) == CHOOSE i \in 1..Len(Foo) : Foo[i] = v

\* impl Into<BitIdx> for Foo: self as usize (the variant's discriminant).
into(v) == (CHOOSE i \in 1..Len(Foo) : Foo[i] = v) - 1

\* impl From<BitIdx> for Foo: match on the index, panic outside 0..3.
from(idx) == IF idx < Len(Foo) THEN Foo[idx + 1] ELSE "panic"

(***************************************************************************)
(* The engine: super::BitSet<B>, one BitVec (bits, with its length) and    *)
(* the capacity of its storage.  Bit i of the vector is bits[i + 1].       *)
(***************************************************************************)
Bit(bits, i) == i < Len(bits) /\ bits[i + 1]

Zeros(n) == [i \in 1..n |-> FALSE]

\* BitVec::grow(n, false) up to length n.
GrowTo(s, n) ==
    IF n <= Len(s.bits) THEN s
    ELSE [bits |-> s.bits \o Zeros(n - Len(s.bits)), cap |-> Max(s.cap, n)]

bs_default == [bits |-> <<>>, cap |-> 0]

bs_with_capacity(nbits) == [bits |-> Zeros(nbits), cap |-> nbits]

bs_from_bit_vec(bv) == [bits |-> bv, cap |-> Len(bv)]

\* BitVec::from_bytes: most significant bit of each byte first.
BytesToBits(bytes) ==
    [i \in 1..(ByteBits * Len(bytes)) |->
        LET byte == bytes[((i - 1) \div ByteBits) + 1]
            k == (ByteBits - 1) - ((i - 1) % ByteBits)
        IN (byte \div (2 ^ k)) % 2 = 1]

bs_from_bytes(bytes) == bs_from_bit_vec(BytesToBits(bytes))

bs_reserve_len(s, n) == [s EXCEPT !.cap = Max(s.cap, n)]

bs_contains(s, i) == Bit(s.bits, i)

bs_insert(s, i) ==
    IF bs_contains(s, i) THEN [set |-> s, ret |-> FALSE]
    ELSE [set |-> [GrowTo(s, i + 1) EXCEPT !.bits[i + 1] = TRUE], ret |-> TRUE]

bs_remove(s, i) ==
    IF ~bs_contains(s, i) THEN [set |-> s, ret |-> FALSE]
    ELSE [set |-> [s EXCEPT !.bits[i + 1] = FALSE], ret |-> TRUE]

bs_len(s) == Cardinality({i \in 1..Len(s.bits) : s.bits[i]})

bs_is_empty(s) == \A i \in 1..Len(s.bits) : ~s.bits[i]

bs_clear(s) == [s EXCEPT !.bits = Zeros(Len(s.bits))]

\* The word merges the engine hands to other_op and TwoBitPositions:
\* |w1, w2| w1 | w2, w1 & w2, w1 & !w2, w1 ^ w2, bit by bit.
Or == [x \in BOOLEAN, y \in BOOLEAN |-> x \/ y]

And == [x \in BOOLEAN, y \in BOOLEAN |-> x /\ y]

AndNot == [x \in BOOLEAN, y \in BOOLEAN |-> x /\ ~y]

Xor == [x \in BOOLEAN, y \in BOOLEAN |-> x # y]

\* other_op: grow self to other's length, then merge bit for bit with other
\* padded by zeros.
other_op(s, o, f) ==
    LET g == GrowTo(s, Len(o.bits))
    IN [g EXCEPT !.bits = [i \in 1..Len(g.bits) |-> f[g.bits[i], Bit(o.bits, i - 1)]]]

bs_union_with(s, o) == other_op(s, o, Or)

bs_intersect_with(s, o) == other_op(s, o, And)

bs_difference_with(s, o) == other_op(s, o, AndNot)

bs_symmetric_difference_with(s, o) == other_op(s, o, Xor)

\* TwoBitPositions: both vectors padded by zeros to the longer one, merged,
\* and the set positions yielded in ascending order.
TwoBitPositions(s, o, merge) ==
    LET n == Max(Len(s.bits), Len(o.bits))
    IN SelectSeq([i \in 1..n |-> i - 1],
                 LAMBDA i : merge[Bit(s.bits, i), Bit(o.bits, i)])

bs_iter(s) == SelectSeq([i \in 1..Len(s.bits) |-> i - 1], LAMBDA i : s.bits[i + 1])

bs_union(s, o) == TwoBitPositions(s, o, Or)

bs_intersection(s, o) == TwoBitPositions(s, o, And)

bs_difference(s, o) == TwoBitPositions(s, o, AndNot)

bs_symmetric_difference(s, o) == TwoBitPositions(s, o, Xor)

bs_is_disjoint(s, o) == bs_intersection(s, o) = <<>>

\* Common prefix: self & other == self; the rest of self is all zero.
bs_is_subset(s, o) ==
    /\ \A i \in 1..Len(s.bits) : i <= Len(o.bits) => (s.bits[i] => o.bits[i])
    /\ \A i \in 1..Len(s.bits) : i > Len(o.bits) => ~s.bits[i]

bs_is_superset(s, o) == bs_is_subset(o, s)

\* PartialEq of the engine: the two bit vectors agree position by position,
\* the shorter one padded by zeros (match_words).
bs_eq(s, o) ==
    \A i \in 0..(Max(Len(s.bits), Len(o.bits)) - 1) : Bit(s.bits, i) = Bit(o.bits, i)

(***************************************************************************)
(* The wrapper: bitidx::BitSet<T, B>(super::BitSet<B>, PhantomData<T>).    *)
(***************************************************************************)
default == bs_default

new == default

with_capacity(nbits) == bs_with_capacity(nbits)

from_bit_vec(bit_vec) == bs_from_bit_vec(bit_vec)

from_bytes(bytes) == bs_from_bytes(bytes)

reserve_len(self, n) == bs_reserve_len(self, n)

\* intersect_with forwarding to the engine's union_with.
intersect_with_mut(self, other) == bs_union_with(self, other)

union_with(self, other) == bs_union_with(self, other)

intersect_with(self, other) == bs_intersect_with(self, other)

difference_with(self, other) == bs_difference_with(self, other)

symmetric_difference_with(self, other) == bs_symmetric_difference_with(self, other)

len(self) == bs_len(self)

is_empty(self) == bs_is_empty(self)

\* clear that forwards nothing.
clear_mut(self) == self

clear(self) == bs_clear(self)

is_disjoint(self, other) == bs_is_disjoint(self, other)

is_subset(self, other) == bs_is_subset(self, other)

\* is_superset forwarding to the engine's is_subset.
is_superset_mut(self, other) == bs_is_subset(self, other)

is_superset(self, other) == bs_is_superset(self, other)

contains(self, value) == LET idx == into(value) IN bs_contains(self, idx)

\* insert answering "was present" instead of "was newly added".
insert_mut(self, value) ==
    LET idx == into(value)
    IN [set |-> bs_insert(self, idx).set, ret |-> bs_contains(self, idx)]

insert(self, value) == LET idx == into(value) IN bs_insert(self, idx)

\* remove forwarding to the engine's insert.
remove_mut(self, value) == LET idx == into(value) IN bs_insert(self, idx)

remove(self, value) == LET idx == into(value) IN bs_remove(self, idx)

\* extend that inserts the first element only.
extend_mut(self, xs) == IF xs = <<>> THEN self ELSE insert(self, Head(xs)).set

\* for i in iter { self.insert(i); }
RECURSIVE extend(_, _)
extend(self, xs) ==
    IF xs = <<>> THEN self ELSE extend(insert(self, Head(xs)).set, Tail(xs))

from_iter(xs) == LET ret == default IN extend(ret, xs)

\* Equality of the raw storage instead of the engine's equality.
eq_mut(self, other) == self = other

\* derive(PartialEq): the engine fields compare equal (PhantomData always does).
eq(self, other) == bs_eq(self, other)

\* next converting the index after the one the engine yielded.
MapBitIdx_next_mut(it) ==
    IF it = <<>> THEN [item |-> "None", it |-> it]
    ELSE [item |-> from(Head(it) + 1), it |-> Tail(it)]

\* MapBitIdx::next: self.0.next().map(|v| T::from(BitIdx(v))); the iterator
\* is the sequence of raw indices the engine has still to yield.
MapBitIdx_next(it) ==
    IF it = <<>> THEN [item |-> "None", it |-> it]
    ELSE [item |-> from(Head(it)), it |-> Tail(it)]

\* Driving a MapBitIdx to its end (collect, a for loop, Debug's entries):
\* the values yielded, and whether a conversion panicked on the way.
RECURSIVE Consume(_, _)
Consume(it, acc) ==
    LET r == MapBitIdx_next(it)
    IN IF r.item = "None" THEN [out |-> acc, panicked |-> FALSE]
       ELSE IF r.item = "panic" THEN [out |-> acc, panicked |-> TRUE]
       ELSE Consume(r.it, Append(acc, r.item))

iter(self) == bs_iter(self)

union(self, other) == bs_union(self, other)

intersection(self, other) == bs_intersection(self, other)

difference(self, other) == bs_difference(self, other)

symmetric_difference(self, other) == bs_symmetric_difference(self, other)

\* Debug::fmt: debug_set().entries(self), i.e. the values of self.iter().
fmt(self) == iter(self)

(***************************************************************************)
(* The state machine: two sets, the operation last applied and its result. *)
(***************************************************************************)
NoCall == [op |-> "none", recv |-> "-", other |-> "-", val |-> "-",
           xs |-> <<>>, n |-> 0, ret |-> FALSE, out |-> <<>>]

\* Sequences over S of length at most n.
SeqUpTo(S, n) == UNION {[1..k -> S] : k \in 0..n}

\* The byte buffers from_bytes is driven with: 8 is 0b00001000 (index 4),
\* 144 is 0b10010000 (indices 0 and 3).
BytesIn == {<<>>, <<8>>, <<144>>}

\* The sequences the bulk operations are driven with next to the raw imports.
XsIn == {<<"A", "C">>, <<"D", "B", "D">>}

Init ==
    /\ sets = [r \in Names |-> new]
    /\ taint = [r \in Names |-> FALSE]
    /\ last = NoCall
    /\ aborted = FALSE

\* A constructor result is bound to r.
Construct(r, s, t, call) ==
    /\ ~aborted
    /\ sets' = [sets EXCEPT ![r] = s]
    /\ taint' = [taint EXCEPT ![r] = t]
    /\ last' = call
    /\ UNCHANGED aborted

\* A &mut self method of r.
Mutate(r, s, t, call) == Construct(r, s, t, call)

\* A &self method: nothing is written.
Query(call) ==
    /\ ~aborted
    /\ last' = call
    /\ UNCHANGED <<sets, taint, aborted>>

\* An iterator over borrowed sets, driven to its end.
Drive(it, call) ==
    LET c == Consume(it, <<>>)
    IN /\ ~aborted
       /\ last' = [call EXCEPT !.out = c.out]
       /\ aborted' = c.panicked
       /\ UNCHANGED <<sets, taint>>

New(r) == Construct(r, new, FALSE, [NoCall EXCEPT !.op = "new", !.recv = r])

WithCapacity(r, n) ==
    Construct(r, with_capacity(n), FALSE,
              [NoCall EXCEPT !.op = "with_capacity", !.recv = r, !.n = n])

FromBitVec(r, bv) ==
    Construct(r, from_bit_vec(bv), TRUE, [NoCall EXCEPT !.op = "from_bit_vec", !.recv = r])

FromBytes(r, bytes) ==
    Construct(r, from_bytes(bytes), TRUE, [NoCall EXCEPT !.op = "from_bytes", !.recv = r])

FromIter(r, xs) ==
    Construct(r, from_iter(xs), FALSE,
              [NoCall EXCEPT !.op = "from_iter", !.recv = r, !.xs = xs])

ReserveLen(r, n) ==
    Mutate(r, reserve_len(sets[r], n), taint[r],
           [NoCall EXCEPT !.op = "reserve_len", !.recv = r, !.n = n])

\* union_with writing its result to the argument instead of the receiver.
UnionWith_mut(r, o) ==
    Mutate(o, bs_union_with(sets[o], sets[r]), taint[r] \/ taint[o],
           [NoCall EXCEPT !.op = "union_with", !.recv = r, !.other = o])

UnionWith(r, o) ==
    Mutate(r, union_with(sets[r], sets[o]), taint[r] \/ taint[o],
           [NoCall EXCEPT !.op = "union_with", !.recv = r, !.other = o])

IntersectWith(r, o) ==
    Mutate(r, intersect_with(sets[r], sets[o]), taint[r] \/ taint[o],
           [NoCall EXCEPT !.op = "intersect_with", !.recv = r, !.other = o])

DifferenceWith(r, o) ==
    Mutate(r, difference_with(sets[r], sets[o]), taint[r] \/ taint[o],
           [NoCall EXCEPT !.op = "difference_with", !.recv = r, !.other = o])

SymmetricDifferenceWith(r, o) ==
    Mutate(r, symmetric_difference_with(sets[r], sets[o]), taint[r] \/ taint[o],
           [NoCall EXCEPT !.op = "symmetric_difference_with", !.recv = r, !.other = o])

Clear(r) ==
    Mutate(r, clear(sets[r]), taint[r], [NoCall EXCEPT !.op = "clear", !.recv = r])

Insert(r, v) ==
    LET res == insert(sets[r], v)
    IN Mutate(r, res.set, taint[r],
              [NoCall EXCEPT !.op = "insert", !.recv = r, !.val = v, !.ret = res.ret])

Remove(r, v) ==
    LET res == remove(sets[r], v)
    IN Mutate(r, res.set, taint[r],
              [NoCall EXCEPT !.op = "remove", !.recv = r, !.val = v, !.ret = res.ret])

Extend(r, xs) ==
    Mutate(r, extend(sets[r], xs), taint[r],
           [NoCall EXCEPT !.op = "extend", !.recv = r, !.xs = xs])

Length(r) ==
    Query([NoCall EXCEPT !.op = "len", !.recv = r, !.n = len(sets[r])])

IsEmpty(r) ==
    Query([NoCall EXCEPT !.op = "is_empty", !.recv = r, !.ret = is_empty(sets[r])])

Contains(r, v) ==
    Query([NoCall EXCEPT !.op = "contains", !.recv = r, !.val = v,
                         !.ret = contains(sets[r], v)])

IsDisjoint(r, o) ==
    Query([NoCall EXCEPT !.op = "is_disjoint", !.recv = r, !.other = o,
                         !.ret = is_disjoint(sets[r], sets[o])])

IsSubset(r, o) ==
    Query([NoCall EXCEPT !.op = "is_subset", !.recv = r, !.other = o,
                         !.ret = is_subset(sets[r], sets[o])])

IsSuperset(r, o) ==
    Query([NoCall EXCEPT !.op = "is_superset", !.recv = r, !.other = o,
                         !.ret = is_superset(sets[r], sets[o])])

Equals(r, o) ==
    Query([NoCall EXCEPT !.op = "eq", !.recv = r, !.other = o,
                         !.ret = eq(sets[r], sets[o])])

Iter(r) == Drive(iter(sets[r]), [NoCall EXCEPT !.op = "iter", !.recv = r])

Union(r, o) ==
    Drive(union(sets[r], sets[o]), [NoCall EXCEPT !.op = "union", !.recv = r, !.other = o])

Intersection(r, o) ==
    Drive(intersection(sets[r], sets[o]),
          [NoCall EXCEPT !.op = "intersection", !.recv = r, !.other = o])

Difference(r, o) ==
    Drive(difference(sets[r], sets[o]),
          [NoCall EXCEPT !.op = "difference", !.recv = r, !.other = o])

SymmetricDifference(r, o) ==
    Drive(symmetric_difference(sets[r], sets[o]),
          [NoCall EXCEPT !.op = "symmetric_difference", !.recv = r, !.other = o])

Fmt(r) == Drive(fmt(sets[r]), [NoCall EXCEPT !.op = "fmt", !.recv = r])

\* The program working on two sets through the element-level operations,
\* the set algebra, the queries and the iterators.
Next ==
    \/ \E r \in Names : New(r)
    \/ \E r \in Names, n \in 0..MaxCap : WithCapacity(r, n)
    \/ \E r \in Names, n \in 0..MaxCap : ReserveLen(r, n)
    \/ \E r \in Names, v \in T : Insert(r, v)
    \/ \E r \in Names, v \in T : Remove(r, v)
    \/ \E r \in Names, v \in T : Contains(r, v)
    \/ \E r \in Names : Clear(r)
    \/ \E r \in Names : Length(r)
    \/ \E r \in Names : IsEmpty(r)
    \/ \E r \in Names : \E o \in Names \ {r} : UnionWith(r, o)
    \/ \E r \in Names : \E o \in Names \ {r} : IntersectWith(r, o)
    \/ \E r \in Names : \E o \in Names \ {r} : DifferenceWith(r, o)
    \/ \E r \in Names : \E o \in Names \ {r} : SymmetricDifferenceWith(r, o)
    \/ \E r \in Names, o \in Names : IsDisjoint(r, o)
    \/ \E r \in Names, o \in Names : IsSubset(r, o)
    \/ \E r \in Names, o \in Names : IsSuperset(r, o)
    \/ \E r \in Names, o \in Names : Equals(r, o)
    \/ \E r \in Names : Iter(r)
    \/ \E r \in Names, o \in Names : Union(r, o)
    \/ \E r \in Names, o \in Names : Intersection(r, o)
    \/ \E r \in Names, o \in Names : Difference(r, o)
    \/ \E r \in Names, o \in Names : SymmetricDifference(r, o)
    \/ \E r \in Names : Fmt(r)

Spec == Init /\ [][Next]_vars

\* The program building one set in bulk: set "a" is created, edited and
\* extended from sequences of values.
NextBulk ==
    \/ New("a")
    \/ \E n \in 0..MaxCap : WithCapacity("a", n)
    \/ \E v \in T : Insert("a", v)
    \/ \E v \in T : Remove("a", v)
    \/ Clear("a")
    \/ \E xs \in SeqUpTo(T, MaxXs) : FromIter("a", xs)
    \/ \E xs \in SeqUpTo(T, MaxXs) : Extend("a", xs)
    \/ \E v \in T : Contains("a", v)
    \/ Length("a")

SpecBulk == Init /\ [][NextBulk]_vars

\* The program with the raw imports, which bypass the conversions, next to
\* the in-band ways of populating a set, and the iterators.  Raw bit vectors
\* are imported into "b", byte buffers into either set; "a" also takes
\* imported bits through the in-place operations.
NextRaw ==
    \/ \E bv \in SeqUpTo(BOOLEAN, MaxRawLen) : FromBitVec("b", bv)
    \/ \E r \in Names, bytes \in BytesIn : FromBytes(r, bytes)
    \/ \E r \in Names : New(r)
    \/ \E r \in Names, xs \in XsIn : FromIter(r, xs)
    \/ \E r \in Names, xs \in XsIn : Extend(r, xs)
    \/ \E r \in Names, v \in T : Insert(r, v)
    \/ \E r \in Names, v \in T : Remove(r, v)
    \/ \E r \in Names : Clear(r)
    \/ \E r \in Names : \E o \in Names \ {r} : UnionWith(r, o)
    \/ \E r \in Names : \E o \in Names \ {r} : IntersectWith(r, o)
    \/ \E r \in Names : \E o \in Names \ {r} : DifferenceWith(r, o)
    \/ \E r \in Names : \E o \in Names \ {r} : SymmetricDifferenceWith(r, o)
    \/ \E r \in Names : Iter(r)
    \/ \E r \in Names : \E o \in Names \ {r} : Union(r, o)
    \/ \E r \in Names : \E o \in Names \ {r} : Intersection(r, o)
    \/ \E r \in Names : \E o \in Names \ {r} : Difference(r, o)
    \/ \E r \in Names : \E o \in Names \ {r} : SymmetricDifference(r, o)
    \/ \E r \in Names : Fmt(r)

SpecRaw == Init /\ [][NextRaw]_vars

(***************************************************************************)
(* Properties.                                                             *)
(***************************************************************************)
\* The logical values a set holds, as contains reports them.
Members(s) == {v \in T : contains(s, v)}

Range(xs) == {xs[i] : i \in 1..Len(xs)}

InPlaceOps == {"union_with", "intersect_with", "difference_with",
               "symmetric_difference_with"}

IterOps == {"iter", "union", "intersection", "difference", "symmetric_difference"}

ReadOnlyOps == IterOps \cup {"is_disjoint", "is_subset", "is_superset", "contains",
                             "len", "is_empty"}

\* C1: insert(v) returns true iff v was not a member before the call;
\* afterwards contains(v) holds, len() has grown by exactly 1 when true was
\* returned and is unchanged when false was returned, and the membership of
\* every other value is unchanged.
InsertContract ==
    [][last'.op = "insert" =>
        LET r == last'.recv
            v == last'.val
        IN /\ last'.ret = ~contains(sets[r], v)
           /\ contains(sets'[r], v)
           /\ len(sets'[r]) = len(sets[r]) + (IF last'.ret THEN 1 ELSE 0)
           /\ \A w \in T \ {v} : contains(sets'[r], w) = contains(sets[r], w)
           /\ (is_empty(sets[r]) => len(sets'[r]) = 1)]_vars

\* C1 witness: a value newly inserted into a set that now holds only it.
InsertWitness ==
    /\ last.op = "insert"
    /\ last.ret
    /\ contains(sets[last.recv], last.val)
    /\ len(sets[last.recv]) = 1

\* C2: remove(v) returns true iff v was a member before the call; when true,
\* contains(v) becomes false and len() decreases by exactly 1; when false,
\* len() and every membership are unchanged; the membership of every other
\* value is unchanged in both cases.
RemoveContract ==
    [][last'.op = "remove" =>
        LET r == last'.recv
            v == last'.val
        IN /\ last'.ret = contains(sets[r], v)
           /\ last'.ret => ~contains(sets'[r], v) /\ len(sets'[r]) + 1 = len(sets[r])
           /\ ~last'.ret => /\ len(sets'[r]) = len(sets[r])
                            /\ Members(sets'[r]) = Members(sets[r])
           /\ \A w \in T \ {v} : contains(sets'[r], w) = contains(sets[r], w)]_vars

\* C2 witness: a present value was removed and other members remain.
RemoveWitness ==
    /\ last.op = "remove"
    /\ last.ret
    /\ ~contains(sets[last.recv], last.val)
    /\ len(sets[last.recv]) >= 1

\* C3: after A.union_with(B), A contains v iff v was in A or in B; after
\* intersect_with iff in A and in B; after difference_with iff in A and not
\* in B; after symmetric_difference_with iff in exactly one of A and B.
SetAlgebraContract ==
    [][last'.op \in InPlaceOps =>
        LET A == sets[last'.recv]
            B == sets[last'.other]
            R == sets'[last'.recv]
        IN \A v \in T :
            /\ last'.op = "union_with" =>
                 (contains(R, v) <=> contains(A, v) \/ contains(B, v))
            /\ last'.op = "intersect_with" =>
                 (contains(R, v) <=> contains(A, v) /\ contains(B, v))
            /\ last'.op = "difference_with" =>
                 (contains(R, v) <=> contains(A, v) /\ ~contains(B, v))
            /\ last'.op = "symmetric_difference_with" =>
                 (contains(R, v) <=> contains(A, v) # contains(B, v))]_vars

\* C3 witness: an in-place intersection of sets with storage of different
\* lengths left a nonempty result smaller than the other operand.
SetAlgebraWitness ==
    /\ last.op = "intersect_with"
    /\ Members(sets[last.recv]) # {}
    /\ Members(sets[last.recv]) # Members(sets[last.other])
    /\ Len(sets[last.recv].bits) # Len(sets[last.other].bits)

\* The set an iterator of the given kind ranges over.
Expected(op, A, B) ==
    CASE op = "iter" -> Members(A)
      [] op = "union" -> Members(A) \cup Members(B)
      [] op = "intersection" -> Members(A) \cap Members(B)
      [] op = "difference" -> Members(A) \ Members(B)
      [] op = "symmetric_difference" ->
            (Members(A) \ Members(B)) \cup (Members(B) \ Members(A))

\* C4: the sequences of iter, union, intersection, difference and
\* symmetric_difference are finite, yield each member of the corresponding
\* set exactly once and nothing else, in strictly ascending raw-index order,
\* each as a value of T; a set holding A and C iterates as [A, C].
IterContract ==
    last.op \in IterOps =>
        LET out == last.out
            S == Expected(last.op, sets[last.recv],
                          sets[IF last.other = "-" THEN last.recv ELSE last.other])
        IN /\ ~aborted
           /\ Range(out) = S
           /\ Len(out) = Cardinality(S)
           /\ \A i \in 1..Len(out) : out[i] \in T /\ from(into(out[i])) = out[i]
           /\ \A i, j \in 1..Len(out) : i < j => into(out[i]) < into(out[j])
           /\ (last.op = "iter" /\ S = {"A", "C"} => out = <<"A", "C">>)

\* C4 witness: a symmetric difference of two different nonempty sets yielded
\* at least two values.
IterWitness ==
    /\ last.op = "symmetric_difference"
    /\ Len(last.out) >= 2
    /\ Members(sets[last.recv]) # {}
    /\ Members(sets[last.other]) # {}

\* C5: after clear() len() is 0, is_empty() is true and no value is
\* contained; clearing again changes nothing.
ClearContract ==
    last.op = "clear" =>
        LET s == sets[last.recv]
        IN /\ len(s) = 0
           /\ is_empty(s)
           /\ \A v \in T : ~contains(s, v)
           /\ clear(s) = s

\* C5 witness: a set with storage was cleared.
ClearWitness ==
    /\ last.op = "clear"
    /\ Len(sets[last.recv].bits) = Len(Foo)

\* C6: a set populated only in-band has every set bit at the raw index of a
\* value of T, so no iterator over such sets calls the index-to-value
\* conversion outside T's domain; a failing conversion needs an operand that
\* went through from_bytes or from_bit_vec.
InBandContract ==
    /\ \A r \in Names : ~taint[r] =>
          \A i \in 0..(Len(sets[r].bits) - 1) :
              bs_contains(sets[r], i) => \E v \in T : into(v) = i /\ from(i) = v
    /\ aborted =>
          /\ last.op \in IterOps \cup {"fmt"}
          /\ taint[last.recv] \/ (last.other # "-" /\ taint[last.other])

\* C6 witness: a union over two sets populated in-band yielded every value
\* of T without a failing conversion.
InBandWitness ==
    /\ last.op = "union"
    /\ ~taint[last.recv] /\ ~taint[last.other]
    /\ ~aborted
    /\ Len(last.out) = Len(Foo)
    /\ Len(sets[last.recv].bits) < Len(sets[last.other].bits)

\* C7: the in-place binary operations leave the membership and len() of the
\* other operand unchanged; the predicates, contains, len, is_empty and the
\* five iterators leave both sets unchanged.
FrameContract ==
    [][/\ last'.op \in InPlaceOps =>
            /\ Members(sets'[last'.other]) = Members(sets[last'.other])
            /\ len(sets'[last'.other]) = len(sets[last'.other])
       /\ last'.op \in ReadOnlyOps => sets' = sets]_vars

\* C7 witness: after a union_with the receiver holds more than the nonempty
\* other operand.
FrameWitness ==
    /\ last.op = "union_with"
    /\ Members(sets[last.other]) # {}
    /\ Members(sets[last.recv]) # Members(sets[last.other])

\* Inserting xs[1], ..., xs[n] in turn.
InsertEach(s, xs) ==
    LET step[k \in 0..Len(xs)] ==
            IF k = 0 THEN s ELSE insert(step[k - 1], xs[k]).set
    IN step[Len(xs)]

\* C8: from_iter(xs) contains v iff v occurs in xs and its len() is the
\* number of distinct values of xs; S.extend(xs) contains v iff v was in S or
\* occurs in xs; both equal inserting each element of xs in turn.
BulkContract ==
    [][/\ last'.op = "from_iter" =>
            LET R == sets'[last'.recv]
                xs == last'.xs
            IN /\ \A v \in T : contains(R, v) <=> v \in Range(xs)
               /\ len(R) = Cardinality(Range(xs))
               /\ R = InsertEach(new, xs)
       /\ last'.op = "extend" =>
            LET S == sets[last'.recv]
                R == sets'[last'.recv]
                xs == last'.xs
            IN /\ \A v \in T : contains(R, v) <=> (contains(S, v) \/ v \in Range(xs))
               /\ R = InsertEach(S, xs)]_vars

\* C8 witness: a set was extended by two different values and holds more
\* than those two.
BulkWitness ==
    /\ last.op = "extend"
    /\ Len(last.xs) = 2
    /\ last.xs[1] # last.xs[2]
    /\ len(sets[last.recv]) > 2

PredicateContract ==
    \A r, o \in Names :
        LET A == sets[r]
            B == sets[o]
        IN /\ is_subset(A, B) <=> Members(A) \subseteq Members(B)
           /\ is_superset(A, B) <=> is_subset(B, A)
           /\ is_disjoint(A, B) <=> Members(A) \cap Members(B) = {}
           /\ is_disjoint(A, B) <=> Consume(intersection(A, B), <<>>).out = <<>>

\* C10 witness: a nonempty set was found a subset of a set with shorter
\* storage.
PredicateWitness ==
    /\ last.op = "is_subset"
    /\ last.ret
    /\ Members(sets[last.recv]) # {}
    /\ Len(sets[last.recv].bits) > Len(sets[last.other].bits)

====
